---- MODULE Spec2Model ----
(***************************************************************************)
(* The WAD archive manager of doomutils (src/WADManager.py) and its lump    *)
(* parsers (src/LumpParser.py).                                            *)
(*                                                                         *)
(* A WADManager holds an ordered list of lumps (name, payload, and the     *)
(* offset/size read from disk when the lump was loaded) and a header.      *)
(* Files are byte sequences; names are sequences of ASCII codes, so the    *)
(* zero padding, the stripping and the little-endian integers of save and  *)
(* _read_wad are computed, not assumed.  List indices are Python's         *)
(* (0-based); element i of a Python list is element i+1 of the sequence.   *)
(* A parser's parse and encode are computed byte by byte from the struct   *)
(* formats of its class; a call that raises is a result with ok = FALSE.   *)
(***************************************************************************)
EXTENDS Integers, Sequences, FiniteSets, TLC

VARIABLES
    lumps,     \* self.lumps
    header,    \* self.header
    disk,      \* the bytes of the file at filepath/output_path, or NoFile
    section,   \* the marker section ("P", "S" or "F") this run exercises
    last,      \* the last call: what was called, on what, and how it ended
    imported,  \* the lumps of the successive successful imports, in call order
    steps      \* number of editing calls made so far

vars == <<lumps, header, disk, section, last, imported, steps>>

----------------------------------------------------------------------------
(* Bounds of the exploration.                                              *)

\* longest lump list of a file the archive is constructed from
MaxStart == 3
\* number of editing calls (add, ensure_markers, import_*) in a run
MaxOps == 2
\* the same two bounds for the runs that go on to save and reload
MaxSaveStart == 2
MaxSaveOps == 1
\* lumps of a file that is cut short before it is opened
MaxLoadStart == 2
\* records of a list that is encoded, textures of a texture list
MaxRecords == 2
MaxTextures == 3
\* bytes of a payload that is parsed
MaxPayloadLen == 31
\* lumps of an archive that is dumped, and add_lump calls before the dump
MaxDumpLumps == 3
MaxDumpOps == 1

----------------------------------------------------------------------------
(* Names, as the ASCII codes of their characters.                          *)

P_START == <<80, 95, 83, 84, 65, 82, 84>>
P_END == <<80, 95, 69, 78, 68>>
S_START == <<83, 95, 83, 84, 65, 82, 84>>
S_END == <<83, 95, 69, 78, 68>>
F_START == <<70, 95, 83, 84, 65, 82, 84>>
F_END == <<70, 95, 69, 78, 68>>
T_START == <<84, 95, 83, 84, 65, 82, 84>>
T_END == <<84, 95, 69, 78, 68>>
MAP01 == <<77, 65, 80, 48, 49>>
THINGS == <<84, 72, 73, 78, 71, 83>>
LINEDEFS == <<76, 73, 78, 69, 68, 69, 70, 83>>
SIDEDEFS == <<83, 73, 68, 69, 68, 69, 70, 83>>
VERTEXES == <<86, 69, 82, 84, 69, 88, 69, 83>>
SEGS == <<83, 69, 71, 83>>
SSECTORS == <<83, 83, 69, 67, 84, 79, 82, 83>>
NODES == <<78, 79, 68, 69, 83>>
SECTORS == <<83, 69, 67, 84, 79, 82, 83>>
REJECT == <<82, 69, 74, 69, 67, 84>>
BLOCKMAP == <<66, 76, 79, 67, 75, 77, 65, 80>>
PWAD == <<80, 87, 65, 68>>
PNAMES == <<80, 78, 65, 77, 69, 83>>
TEXTURE1 == <<84, 69, 88, 84, 85, 82, 69, 49>>
FLAT == <<70, 76, 65, 84>>
SPRITE == <<83, 80, 82, 73, 84, 69>>

\* names and payloads the calls are made with
SPR1 == <<83, 80, 82, 49>>
SPR2 == <<83, 80, 82, 50>>
TOOLONGNAME == <<84, 79, 79, 76, 79, 78, 71, 78, 65, 77, 69>>
\* a 1x1 sprite: width 1, height 1, two more header words, one pixel; the
\* pixel is a byte that is no ASCII character
Sprite1x1 == <<1, 0, 1, 0, 0, 0, 0, 0, 200>>
\* too short for a sprite header
Short == <<5, 6>>
Empty == <<>>

Sections == {"P", "S", "F"}
StartMarker(sec) == CASE sec = "P" -> P_START [] sec = "S" -> S_START [] OTHER -> F_START
EndMarker(sec) == CASE sec = "P" -> P_END [] sec = "S" -> S_END [] OTHER -> F_END

\* Python's None, where an index or a loaded offset/size is absent
None == -1
NoFile == <<-1>>

----------------------------------------------------------------------------
(* Bytes.                                                                  *)

Min(a, b) == IF a < b THEN a ELSE b
Max(a, b) == IF a > b THEN a ELSE b
Zeros(n) == [i \in 1..n |-> 0]

\* struct.pack("<I", n)
PackU32(n) == <<n % 256, (n \div 256) % 256, (n \div 65536) % 256, (n \div 16777216) % 256>>
\* struct.unpack("<I", b), b of four bytes
UnpackU32(b) == b[1] + 256 * b[2] + 65536 * b[3] + 16777216 * b[4]
\* struct.unpack("<H", b), b of two bytes
UnpackU16(b) == b[1] + 256 * b[2]

\* f.seek(pos); f.read(n): the bytes at positions pos .. pos+n-1 that exist
ReadAt(f, pos, n) ==
    IF pos >= Len(f) \/ n <= 0 THEN <<>>
    ELSE SubSeq(f, pos + 1, pos + Min(n, Len(f) - pos))

\* f.seek(pos); f.write(b): a write past the end fills the gap with zeros,
\* a write of no bytes leaves the file as it is
WriteAt(f, pos, b) ==
    IF b = <<>> THEN f
    ELSE [i \in 1..Max(Len(f), pos + Len(b)) |->
            IF i > pos /\ i <= pos + Len(b) THEN b[i - pos]
            ELSE IF i <= Len(f) THEN f[i] ELSE 0]

\* name.ljust(8, "\x00").encode("ascii")
LJust8(name) == IF Len(name) >= 8 THEN name ELSE name \o Zeros(8 - Len(name))

\* b.rstrip(b"\x00")
RECURSIVE RStrip0(_)
RStrip0(b) ==
    IF b = <<>> THEN b
    ELSE IF b[Len(b)] = 0 THEN RStrip0(SubSeq(b, 1, Len(b) - 1)) ELSE b

\* .decode("ascii") succeeds
IsAscii(b) == \A i \in 1..Len(b) : b[i] < 128

----------------------------------------------------------------------------
(* Lumps and the list operations.                                          *)

\* a lump made by add_lump / insert_lump: no "offset", no "size"
NewLump(name, data) == [name |-> name, data |-> data, offset |-> None, size |-> None]

\* append to a list
Append1(L, x) == L \o <<x>>

\* list.insert(index, x), index >= 0: an index past the end appends
ListInsert(L, index, x) ==
    LET i == Min(index, Len(L)) IN SubSeq(L, 1, i) \o <<x>> \o SubSeq(L, i + 1, Len(L))

\* list.pop(index), 0 <= index < len
ListPop(L, index) == SubSeq(L, 1, index) \o SubSeq(L, index + 2, Len(L))

\* find_lump_index: index of the first lump named name, or None
find_lump_index(L, name) ==
    IF \E i \in 1..Len(L) : L[i].name = name
    THEN (CHOOSE i \in 1..Len(L) : L[i].name = name /\ \A j \in 1..(i - 1) : L[j].name # name) - 1
    ELSE None

\* add_lump without its test of the name's length
add_lump_unchecked(L, name, data) ==
    [ok |-> TRUE, lumps |-> Append1(L, NewLump(name, data))]

\* add_lump: [ok, lumps]; a name of more than 8 characters raises ValueError
add_lump(L, name, data) ==
    IF Len(name) > 8 THEN [ok |-> FALSE, lumps |-> L]
    ELSE [ok |-> TRUE, lumps |-> Append1(L, NewLump(name, data))]

\* insert_lump storing the first 8 characters of a longer name
insert_lump_truncating(L, index, name, data) ==
    [ok |-> TRUE, lumps |-> ListInsert(L, index, NewLump(SubSeq(name, 1, Min(Len(name), 8)), data))]

\* insert_lump: [ok, lumps]
insert_lump(L, index, name, data) ==
    IF Len(name) > 8 THEN [ok |-> FALSE, lumps |-> L]
    ELSE [ok |-> TRUE, lumps |-> ListInsert(L, index, NewLump(name, data))]

\* the test "start_index is not None and end_index is not None and
\* start_index > end_index" of ensure_markers, with the start after the end
\* taken for the right order
markers_in_wrong_order_inverted(start_index, end_index) ==
    start_index # None /\ end_index # None /\ start_index < end_index

\* the test of ensure_markers that decides whether the markers are removed
markers_in_wrong_order(start_index, end_index) ==
    start_index # None /\ end_index # None /\ start_index > end_index

\* ensure_markers: [ok, lumps, start_index, end_index].  When both markers are
\* found with the start after the end, the end marker is popped first and
\* then the lump at the start marker's old index; that second pop raises
\* IndexError when the old index is now past the end of the list.
ensure_markers(L, start_marker, end_marker) ==
    LET s0 == find_lump_index(L, start_marker)
        e0 == find_lump_index(L, end_marker)
        wrong == markers_in_wrong_order(s0, e0)
        popped == IF wrong THEN ListPop(L, e0) ELSE L
        raised == wrong /\ s0 >= Len(popped)
        L1 == IF wrong /\ ~raised THEN ListPop(popped, s0) ELSE popped
        s1 == IF wrong THEN None ELSE s0
        e1 == IF wrong THEN None ELSE e0
        L2 == IF s1 = None THEN add_lump(L1, start_marker, Empty).lumps ELSE L1
        s2 == IF s1 = None THEN Len(L2) - 1 ELSE s1
        L3 == IF e1 = None THEN add_lump(L2, end_marker, Empty).lumps ELSE L2
        e2 == IF e1 = None THEN Len(L3) - 1 ELSE e1
    IN  IF raised
        THEN [ok |-> FALSE, lumps |-> popped, start_index |-> None, end_index |-> None]
        ELSE [ok |-> TRUE, lumps |-> L3, start_index |-> s2, end_index |-> e2]

\* validate_sprite
validate_sprite(sprite_data) ==
    IF Len(sprite_data) < 8 THEN FALSE
    ELSE LET width == UnpackU16(SubSeq(sprite_data, 1, 2))
             height == UnpackU16(SubSeq(sprite_data, 3, 4))
         IN  Len(sprite_data) >= 8 + width * height

\* validate: the loop over the lumps raises ValueError at the first lump named
\* S_START whose payload validate_sprite refuses
validate(L) ==
    [ok |-> \A i \in 1..Len(L) : L[i].name = S_START => validate_sprite(L[i].data)]

\* the body shared by the three imports: ensure_markers, then insert_lump at
\* the end index it returned
insert_before_end(L, start_marker, end_marker, name, data) ==
    LET m == ensure_markers(L, start_marker, end_marker)
    IN  IF ~m.ok THEN [ok |-> FALSE, lumps |-> m.lumps]
        ELSE insert_lump(m.lumps, m.end_index, name, data)

\* import_texture_patch
import_texture_patch(L, patch_name, patch_data) ==
    insert_before_end(L, P_START, P_END, patch_name, patch_data)

\* import_flat
import_flat(L, flat_name, flat_data) ==
    insert_before_end(L, F_START, F_END, flat_name, flat_data)

\* import_sprite (the second definition of the class, which replaces the first)
import_sprite(L, sprite_name, sprite_data) ==
    IF ~validate_sprite(sprite_data) THEN [ok |-> FALSE, lumps |-> L]
    ELSE IF Len(sprite_name) > 8 THEN [ok |-> FALSE, lumps |-> L]
    ELSE insert_before_end(L, S_START, S_END, sprite_name, sprite_data)

\* create_empty_wad: an empty map, then the default flat, texture and sprite markers
create_empty_wad ==
    [i \in 1..17 |->
        NewLump(<<MAP01, THINGS, LINEDEFS, SIDEDEFS, VERTEXES, SEGS, SSECTORS, NODES,
                  SECTORS, REJECT, BLOCKMAP, F_START, F_END, T_START, T_END,
                  S_START, S_END>>[i], Empty)]

----------------------------------------------------------------------------
(* struct.pack, struct.unpack and struct.calcsize for the little-endian    *)
(* formats of src/LumpParser.py.  A format is the sequence of its codes:   *)
(* "h" (int16), "H" (uint16), "I" (uint32), "8s" (8 bytes).                *)

FieldSize(c) == CASE c = "h" -> 2 [] c = "H" -> 2 [] c = "I" -> 4 [] OTHER -> 8

RECURSIVE calcsize(_)
calcsize(fmt) == IF fmt = <<>> THEN 0 ELSE FieldSize(Head(fmt)) + calcsize(Tail(fmt))

\* struct.pack raises struct.error on a number outside the range of its code
Packable(c, v) ==
    CASE c = "h" -> v >= -32768 /\ v <= 32767
      [] c = "H" -> v >= 0 /\ v <= 65535
      [] c = "I" -> v >= 0
      [] OTHER -> TRUE

\* the bytes of one field; "8s" cuts a longer value to 8 bytes and pads a
\* shorter one with zero bytes
PackField(c, v) ==
    CASE c = "h" -> <<((v + 65536) % 65536) % 256, ((v + 65536) % 65536) \div 256>>
      [] c = "H" -> <<v % 256, v \div 256>>
      [] c = "I" -> PackU32(v)
      [] OTHER -> SubSeq(v \o Zeros(8), 1, 8)

UnpackField(c, b) ==
    CASE c = "h" -> IF UnpackU16(b) >= 32768 THEN UnpackU16(b) - 65536 ELSE UnpackU16(b)
      [] c = "H" -> UnpackU16(b)
      [] c = "I" -> UnpackU32(b)
      [] OTHER -> b

RECURSIVE PackFields(_, _)
PackFields(fmt, vals) ==
    IF fmt = <<>> THEN <<>>
    ELSE PackField(Head(fmt), Head(vals)) \o PackFields(Tail(fmt), Tail(vals))

\* struct.pack(fmt, *vals): [ok, bytes]
struct_pack(fmt, vals) ==
    IF \E i \in 1..Len(fmt) : ~Packable(fmt[i], vals[i])
    THEN [ok |-> FALSE, bytes |-> <<>>]
    ELSE [ok |-> TRUE, bytes |-> PackFields(fmt, vals)]

\* offset of the i-th field of a format
FieldStart(fmt, i) == calcsize(SubSeq(fmt, 1, i - 1))

\* struct.unpack(fmt, b): [ok, vals]; raises struct.error unless b has
\* exactly calcsize(fmt) bytes
struct_unpack(fmt, b) ==
    IF Len(b) # calcsize(fmt) THEN [ok |-> FALSE, vals |-> <<>>]
    ELSE [ok |-> TRUE,
          vals |-> [i \in 1..Len(fmt) |->
                       UnpackField(fmt[i], SubSeq(b, FieldStart(fmt, i) + 1,
                                                  FieldStart(fmt, i) + FieldSize(fmt[i])))]]

\* the concatenation of a sequence of byte strings
RECURSIVE Concat(_)
Concat(ss) == IF ss = <<>> THEN <<>> ELSE Head(ss) \o Concat(Tail(ss))

\* a call that raised the exception e, and one that returned v
Raise(e) == [ok |-> FALSE, err |-> e, out |-> <<>>]
Return(v) == [ok |-> TRUE, err |-> "", out |-> v]

----------------------------------------------------------------------------
(* The namedtuples of LumpParser.py, built from their positional fields.   *)

Thing(v) == [x |-> v[1], y |-> v[2], angle |-> v[3], type |-> v[4], flags |-> v[5]]
Vertex(v) == [x |-> v[1], y |-> v[2]]
Linedef(v) ==
    [start |-> v[1], end |-> v[2], flags |-> v[3], special |-> v[4], tag |-> v[5],
     right_side |-> v[6], left_side |-> v[7]]
Sector(v) ==
    [floor_height |-> v[1], ceiling_height |-> v[2], floor_tex |-> v[3],
     ceiling_tex |-> v[4], light |-> v[5], special |-> v[6], tag |-> v[7]]
Sidedef(v) ==
    [x_off |-> v[1], y_off |-> v[2], upper_tex |-> v[3], lower_tex |-> v[4],
     middle_tex |-> v[5], sector |-> v[6]]
Seg(v) ==
    [start_vertex |-> v[1], end_vertex |-> v[2], angle |-> v[3], line_def |-> v[4],
     side |-> v[5], direction |-> v[6], offset |-> v[7]]
Subsector(v) == [seg_count |-> v[1], first_seg |-> v[2]]
Node(v) ==
    [x |-> v[1], y |-> v[2], dx |-> v[3], dy |-> v[4],
     right_bbox_top |-> v[5], right_bbox_bottom |-> v[6],
     right_bbox_left |-> v[7], right_bbox_right |-> v[8],
     left_bbox_top |-> v[9], left_bbox_bottom |-> v[10],
     left_bbox_left |-> v[11], left_bbox_right |-> v[12],
     right_child |-> v[13], left_child |-> v[14]]
Blockmap(v) ==
    [origin_x |-> v[1], origin_y |-> v[2], blocks_width |-> v[3], blocks_height |-> v[4]]
Patch(v) ==
    [originx |-> v[1], originy |-> v[2], patch_num |-> v[3], stepdir |-> v[4],
     colormap |-> v[5]]
Texture(v) == [name |-> v[1], width |-> v[2], height |-> v[3], patches |-> v[4]]
Sprite(v) ==
    [width |-> v[1], height |-> v[2], left_offset |-> v[3], top_offset |-> v[4],
     pixels |-> v[5]]

----------------------------------------------------------------------------
(* The parsers: parse and encode of each class.                            *)

ThingFormat == <<"h", "h", "H", "H", "H">>
VertexFormat == <<"h", "h">>
LinedefFormat == <<"H", "H", "H", "H", "H", "H", "H">>
SectorFormat == <<"h", "h", "8s", "8s", "H", "H", "H">>
SidedefFormat == <<"h", "h", "8s", "8s", "8s", "H">>
SegFormat == <<"H", "H", "H", "H", "H", "H", "H">>
SubsectorFormat == <<"H", "H">>
NodeFormat == <<"h", "h", "h", "h", "h", "h", "h", "h", "h", "h", "h", "h", "H", "H">>
BlockmapFormat == <<"H", "H", "H", "H">>
TextureHeaderFormat == <<"8s", "I", "H", "H", "H", "H">>
PatchFormat == <<"H", "H", "H", "H", "H", "H">>
SpriteHeaderFormat == <<"H", "H", "H", "H", "H">>

\* the loop "for i in range(0, len(data), size): struct.unpack(fmt,
\* data[i:i+size])": [ok, vals]; the last slice is short when the length is
\* no multiple of the size, and struct.unpack raises on it
unpack_records(data, fmt) ==
    LET size == calcsize(fmt)
        n == (Len(data) + size - 1) \div size
        rec(k) == struct_unpack(fmt, SubSeq(data, size * (k - 1) + 1, Min(size * k, Len(data))))
    IN  [ok |-> \A k \in 1..n : rec(k).ok, vals |-> [k \in 1..n |-> rec(k).vals]]

\* raw.rstrip(b"\x00").decode("ascii") on every "8s" field of one record
decode_names(fmt, vals) ==
    [i \in 1..Len(fmt) |-> IF fmt[i] = "8s" THEN RStrip0(vals[i]) ELSE vals[i]]

\* the namedtuple a parse appends for the values of one record
MakeRecord(name, v) ==
    CASE name = THINGS -> Thing(v)
      [] name = VERTEXES -> Vertex(v)
      [] name = LINEDEFS -> Linedef(v)
      [] name = SECTORS -> Sector(v)
      [] name = SIDEDEFS -> Sidedef(v)
      [] name = SEGS -> Seg(v)
      [] name = SSECTORS -> Subsector(v)
      [] name = NODES -> Node(v)

\* the loop of the parse of the parser called name, with the records it appends
unpack_all(data, fmt, name) ==
    LET u == unpack_records(data, fmt)
    IN  IF ~u.ok THEN Raise("struct.error")
        ELSE IF \E k \in 1..Len(u.vals) : \E i \in 1..Len(fmt) :
                    fmt[i] = "8s" /\ ~IsAscii(u.vals[k][i])
        THEN Raise("UnicodeDecodeError")
        ELSE Return([k \in 1..Len(u.vals) |-> MakeRecord(name, decode_names(fmt, u.vals[k]))])

\* parse of the classes with a RECORD_SIZE: ValueError unless the length is a
\* multiple of it
parse_fixed(data, fmt, name) ==
    IF Len(data) % calcsize(fmt) # 0 THEN Raise("ValueError")
    ELSE unpack_all(data, fmt, name)

\* the values struct.pack gets for one record: its attributes in the order
\* the encoder names them, name fields encoded and ljust'ed to 8 bytes
pack_record(rec, fmt, attrs) ==
    IF \E i \in 1..Len(attrs) : attrs[i] \notin DOMAIN rec THEN Raise("AttributeError")
    ELSE IF \E i \in 1..Len(attrs) : fmt[i] = "8s" /\ ~IsAscii(rec[attrs[i]])
    THEN Raise("UnicodeEncodeError")
    ELSE LET vals == [i \in 1..Len(attrs) |->
                         IF fmt[i] = "8s" THEN LJust8(rec[attrs[i]]) ELSE rec[attrs[i]]]
             p == struct_pack(fmt, vals)
         IN  IF p.ok THEN Return(p.bytes) ELSE Raise("struct.error")

\* the loop of an encode: the first record that raises ends it
encode_records(records, fmt, attrs) ==
    LET packed == [k \in 1..Len(records) |-> pack_record(records[k], fmt, attrs)]
        bad == {k \in 1..Len(records) : ~packed[k].ok}
    IN  IF bad # {} THEN Raise(packed[CHOOSE k \in bad : \A j \in bad : k <= j].err)
        ELSE Return(Concat([k \in 1..Len(records) |-> packed[k].out]))

ThingsParser_parse(data) == parse_fixed(data, ThingFormat, THINGS)
ThingsParser_encode(things) ==
    encode_records(things, ThingFormat, <<"x", "y", "angle", "type", "flags">>)

VertexesParser_parse(data) == parse_fixed(data, VertexFormat, VERTEXES)
VertexesParser_encode(vertices) == encode_records(vertices, VertexFormat, <<"x", "y">>)

LinedefsParser_parse(data) == parse_fixed(data, LinedefFormat, LINEDEFS)
\* the encoder reads attributes the Linedef namedtuple does not have
LinedefsParser_encode(linedefs) ==
    encode_records(linedefs, LinedefFormat,
                   <<"start_vertex", "end_vertex", "flags", "special_type", "sector_tag",
                     "right_sidedef", "left_sidedef">>)

SectorsParser_parse(data) == parse_fixed(data, SectorFormat, SECTORS)
SectorsParser_encode(sectors) ==
    encode_records(sectors, SectorFormat,
                   <<"floor_height", "ceiling_height", "floor_tex", "ceiling_tex", "light",
                     "special", "tag">>)

SidedefsParser_parse(data) == parse_fixed(data, SidedefFormat, SIDEDEFS)
SidedefsParser_encode(sidedefs) ==
    encode_records(sidedefs, SidedefFormat,
                   <<"x_off", "y_off", "upper_tex", "lower_tex", "middle_tex", "sector">>)

\* SegsParser.parse decoding the whole records and ignoring what is left
SegsParser_parse_whole_records(data) ==
    IF Len(data) < calcsize(SegFormat) THEN Raise("ValueError")
    ELSE unpack_all(SubSeq(data, 1, Len(data) - (Len(data) % calcsize(SegFormat))), SegFormat, SEGS)

\* SegsParser.parse tests the length against one record only
SegsParser_parse(data) ==
    IF Len(data) < calcsize(SegFormat) THEN Raise("ValueError")
    ELSE unpack_all(data, SegFormat, SEGS)
SegsParser_encode(segs) ==
    encode_records(segs, SegFormat,
                   <<"start_vertex", "end_vertex", "angle", "line_def", "side", "direction",
                     "offset">>)

SubsectorsParser_parse(data) == parse_fixed(data, SubsectorFormat, SSECTORS)
SubsectorsParser_encode(subsectors) ==
    encode_records(subsectors, SubsectorFormat, <<"seg_count", "first_seg">>)

NodesParser_parse(data) == parse_fixed(data, NodeFormat, NODES)
NodesParser_encode(nodes) ==
    encode_records(nodes, NodeFormat,
                   <<"x", "y", "dx", "dy", "right_bbox_top", "right_bbox_bottom",
                     "right_bbox_left", "right_bbox_right", "left_bbox_top",
                     "left_bbox_bottom", "left_bbox_left", "left_bbox_right",
                     "right_child", "left_child">>)

\* RejectParser.parse: list(data)
RejectParser_parse(data) == Return(data)

\* BlockmapParser: the header only, one Blockmap and no list
BlockmapParser_parse(data) ==
    IF Len(data) < calcsize(BlockmapFormat) THEN Raise("ValueError")
    ELSE Return(Blockmap(struct_unpack(BlockmapFormat,
                                       SubSeq(data, 1, calcsize(BlockmapFormat))).vals))
BlockmapParser_encode(blockmap) ==
    pack_record(blockmap, BlockmapFormat,
                <<"origin_x", "origin_y", "blocks_width", "blocks_height">>)

\* PNamesParser.parse: a short slice of a name is taken as it is
PNamesParser_parse(data) ==
    IF Len(data) < 4 THEN Raise("ValueError")
    ELSE LET num_patches == UnpackU32(SubSeq(data, 1, 4))
             raw(k) == ReadAt(data, 4 + 8 * (k - 1), 8)
         IN  IF \E k \in 1..num_patches : ~IsAscii(raw(k)) THEN Raise("UnicodeDecodeError")
             ELSE Return([k \in 1..num_patches |-> RStrip0(raw(k))])

\* PNamesParser.encode: the only encoder that tests the length of a name
PNamesParser_encode(patch_names) ==
    LET n == Len(patch_names)
        bad == {k \in 1..n : ~IsAscii(patch_names[k]) \/ Len(patch_names[k]) > 8}
        first == CHOOSE k \in bad : \A j \in bad : k <= j
    IN  IF bad # {}
        THEN Raise(IF IsAscii(patch_names[first]) THEN "ValueError" ELSE "UnicodeEncodeError")
        ELSE Return(PackU32(n) \o Concat([k \in 1..n |-> LJust8(patch_names[k])]))

\* one texture read at tex_data = data[offset:]
parse_texture(tex_data) ==
    LET hsize == calcsize(TextureHeaderFormat)
        psize == calcsize(PatchFormat)
        h == struct_unpack(TextureHeaderFormat, SubSeq(tex_data, 1, Min(hsize, Len(tex_data))))
        name_raw == h.vals[1]
        num_patches == h.vals[6]
        patch(k) == struct_unpack(PatchFormat,
                                  SubSeq(tex_data, hsize + psize * (k - 1) + 1,
                                         hsize + psize * k))
    IN  IF ~h.ok THEN Raise("struct.error")
        ELSE IF ~IsAscii(name_raw) THEN Raise("UnicodeDecodeError")
        ELSE IF hsize + psize * num_patches > Len(tex_data) THEN Raise("struct.error")
        ELSE Return(Texture(<<RStrip0(name_raw), h.vals[3], h.vals[4],
                              [k \in 1..num_patches |-> Patch(SubSeq(patch(k).vals, 1, 5))]>>))

\* TextureParser.parse: the count, the offset table, then one texture at
\* each offset of the table
TextureParser_parse(data) ==
    IF Len(data) < 4 THEN Raise("struct.error")
    ELSE LET num_textures == UnpackU32(SubSeq(data, 1, 4))
             offset(k) == UnpackU32(SubSeq(data, 4 * k + 1, 4 * k + 4))
             tex(k) == parse_texture(SubSeq(data, offset(k) + 1, Len(data)))
             bad == {k \in 1..num_textures : ~tex(k).ok}
         IN  IF Len(data) < 4 + 4 * num_textures THEN Raise("struct.error")
             ELSE IF bad # {} THEN Raise(tex(CHOOSE k \in bad : \A j \in bad : k <= j).err)
             ELSE Return([k \in 1..num_textures |-> tex(k).out])

\* the bytes TextureParser.encode appends for one texture: header and patches
texture_block(texture) ==
    LET h == IF IsAscii(texture.name)
             THEN struct_pack(TextureHeaderFormat,
                              <<LJust8(texture.name), 0, texture.width, texture.height, 0,
                                Len(texture.patches)>>)
             ELSE [ok |-> FALSE, bytes |-> <<>>]
        p == [k \in 1..Len(texture.patches) |->
                 struct_pack(PatchFormat,
                             <<texture.patches[k].originx, texture.patches[k].originy,
                               texture.patches[k].patch_num, texture.patches[k].stepdir,
                               texture.patches[k].colormap, 0>>)]
    IN  [ok |-> h.ok /\ \A k \in 1..Len(p) : p[k].ok,
         bytes |-> h.bytes \o Concat([k \in 1..Len(p) |-> p[k].bytes])]

\* the loop of TextureParser.encode after its first k turns: each turn notes
\* current_offset as the texture's offset, appends the texture's bytes to
\* texture_data, and then adds the length of all of texture_data so far to
\* current_offset
RECURSIVE texture_loop(_, _)
texture_loop(textures, k) ==
    IF k = 0
    THEN [ok |-> TRUE, texture_data |-> <<>>, offsets |-> <<>>,
          current_offset |-> 4 + 4 * Len(textures)]
    ELSE LET before == texture_loop(textures, k - 1)
             block == texture_block(textures[k])
             texture_data == before.texture_data \o block.bytes
         IN  IF ~before.ok \/ ~block.ok THEN [before EXCEPT !.ok = FALSE]
             ELSE [ok |-> TRUE, texture_data |-> texture_data,
                   offsets |-> Append(before.offsets, before.current_offset),
                   current_offset |-> before.current_offset + Len(texture_data)]

\* TextureParser.encode: count, offset table, texture data
TextureParser_encode(textures) ==
    LET r == texture_loop(textures, Len(textures))
    IN  IF ~r.ok THEN Raise("struct.error")
        ELSE Return(PackU32(Len(textures))
                    \o Concat([k \in 1..Len(textures) |-> PackU32(r.offsets[k])])
                    \o r.texture_data)

\* FlatParser.parse: exactly RECORD_SIZE = 4096 bytes
FlatParser_parse(data) == IF Len(data) # 4096 THEN Raise("ValueError") ELSE Return(data)

\* SpriteParser.parse: the header and the rest as pixels
SpriteParser_parse(data) ==
    IF Len(data) < calcsize(SpriteHeaderFormat) THEN Raise("ValueError")
    ELSE LET h == struct_unpack(SpriteHeaderFormat,
                                SubSeq(data, 1, calcsize(SpriteHeaderFormat))).vals
         IN  Return(Sprite(<<h[1], h[2], h[3], h[4],
                             SubSeq(data, calcsize(SpriteHeaderFormat) + 1, Len(data))>>))

\* self.parsers: the parser of each lump_name
ParserNames ==
    {THINGS, VERTEXES, LINEDEFS, SECTORS, SIDEDEFS, SEGS, SSECTORS, NODES, REJECT,
     BLOCKMAP, PNAMES, TEXTURE1, FLAT, SPRITE}

\* self.parsers[name].parse(data)
parser_parse(name, data) ==
    CASE name = THINGS -> ThingsParser_parse(data)
      [] name = VERTEXES -> VertexesParser_parse(data)
      [] name = LINEDEFS -> LinedefsParser_parse(data)
      [] name = SECTORS -> SectorsParser_parse(data)
      [] name = SIDEDEFS -> SidedefsParser_parse(data)
      [] name = SEGS -> SegsParser_parse(data)
      [] name = SSECTORS -> SubsectorsParser_parse(data)
      [] name = NODES -> NodesParser_parse(data)
      [] name = REJECT -> RejectParser_parse(data)
      [] name = BLOCKMAP -> BlockmapParser_parse(data)
      [] name = PNAMES -> PNamesParser_parse(data)
      [] name = TEXTURE1 -> TextureParser_parse(data)
      [] name = FLAT -> FlatParser_parse(data)
      [] name = SPRITE -> SpriteParser_parse(data)

\* self.parsers[name].encode(records), for the parsers that encode records
parser_encode(name, records) ==
    CASE name = THINGS -> ThingsParser_encode(records)
      [] name = VERTEXES -> VertexesParser_encode(records)
      [] name = LINEDEFS -> LinedefsParser_encode(records)
      [] name = SECTORS -> SectorsParser_encode(records)
      [] name = SIDEDEFS -> SidedefsParser_encode(records)
      [] name = SEGS -> SegsParser_encode(records)
      [] name = SSECTORS -> SubsectorsParser_encode(records)
      [] name = NODES -> NodesParser_encode(records)
      [] name = BLOCKMAP -> BlockmapParser_encode(records)
      [] name = PNAMES -> PNamesParser_encode(records)
      [] name = TEXTURE1 -> TextureParser_encode(records)

----------------------------------------------------------------------------
(* save and _read_wad.                                                     *)

\* size of the header and of a directory entry, as save computes offsets
HeaderSize == 12
EntrySize == 16

\* the directory offset of the header in memory, written back as it was read
header_lump_offset_stale(L, hdr) == hdr.lump_offset

\* the directory offset save writes in the header
header_lump_offset(L, hdr) == HeaderSize + Len(L) * EntrySize

\* where save starts writing payloads
first_lump_offset(L) == HeaderSize + Len(L) * EntrySize

\* lump_offset when save reaches the k-th lump (k = Len(L)+1: after the loop)
RECURSIVE lump_offset_at(_, _)
lump_offset_at(L, k) ==
    IF k <= 1 THEN first_lump_offset(L)
    ELSE lump_offset_at(L, k - 1) + Len(L[k - 1].data)

\* the file after save's loop has written the first k payloads
RECURSIVE write_lumps(_, _, _)
write_lumps(f, L, k) ==
    IF k = 0 THEN f
    ELSE WriteAt(write_lumps(f, L, k - 1), lump_offset_at(L, k), L[k].data)

\* a directory entry that repeats the offset and size read at load time
directory_entry_stale(L, k) ==
    PackU32(IF L[k].offset # None THEN L[k].offset ELSE lump_offset_at(L, k))
    \o PackU32(IF L[k].size # None THEN L[k].size ELSE Len(L[k].data))
    \o LJust8(L[k].name)

\* the directory entry save appends for the k-th lump
directory_entry(L, k) ==
    PackU32(lump_offset_at(L, k)) \o PackU32(Len(L[k].data)) \o LJust8(L[k].name)

RECURSIVE directory_bytes(_, _)
directory_bytes(L, k) ==
    IF k = 0 THEN <<>> ELSE directory_bytes(L, k - 1) \o directory_entry(L, k)

\* the file position when save starts writing the directory: where the last
\* payload write ended, or the end of the header when there are no lumps
directory_position(L, hdr) ==
    IF Len(L) = 0 THEN Len(hdr.type) + 8 ELSE lump_offset_at(L, Len(L) + 1)

\* save: the bytes of the file it writes
save(L, hdr) ==
    LET head == hdr.type \o PackU32(Len(L)) \o PackU32(header_lump_offset(L, hdr))
        body == write_lumps(head, L, Len(L))
    IN  WriteAt(body, directory_position(L, hdr), directory_bytes(L, Len(L)))

\* _read_wad: [ok, header, lumps].  struct.unpack raises on a short read of
\* the 8 header bytes or of an entry's 8 offset/size bytes; decode raises on
\* a name byte above 127; a short read of a name or of a payload does not.
read_wad(f) ==
    IF Len(f) < HeaderSize THEN [ok |-> FALSE, header |-> <<>>, lumps |-> <<>>]
    ELSE
    LET type == SubSeq(f, 1, 4)
        lump_count == UnpackU32(SubSeq(f, 5, 8))
        lump_offset == UnpackU32(SubSeq(f, 9, 12))
        readable == lump_count = 0
                    \/ /\ lump_offset + 8 <= Len(f)
                       /\ lump_count <= ((Len(f) - lump_offset - 8) \div EntrySize) + 1
        base(i) == lump_offset + EntrySize * (i - 1)
        entry_name(i) == RStrip0(ReadAt(f, base(i) + 8, 8))
        entry_offset(i) == UnpackU32(ReadAt(f, base(i), 4))
        entry_size(i) == UnpackU32(ReadAt(f, base(i) + 4, 4))
    IN  IF ~readable \/ \E i \in 1..lump_count : ~IsAscii(ReadAt(f, base(i) + 8, 8))
        THEN [ok |-> FALSE, header |-> <<>>, lumps |-> <<>>]
        ELSE [ok |-> TRUE,
              header |-> [type |-> type, lump_count |-> lump_count,
                          lump_offset |-> lump_offset],
              lumps |-> [i \in 1..lump_count |->
                            [name |-> entry_name(i),
                             offset |-> entry_offset(i),
                             size |-> entry_size(i),
                             data |-> IF entry_size(i) > 0
                                      THEN ReadAt(f, entry_offset(i), entry_size(i))
                                      ELSE <<>>]]]

----------------------------------------------------------------------------
(* The files an archive is constructed from.                               *)

\* the lump that is no marker
Other == [name |-> THINGS, data |-> Short]
Marker(name) == [name |-> name, data |-> Empty]

\* every list of at most n lumps, each the section's start marker, its end
\* marker or another lump
StartLists(sec, n) ==
    UNION {[1..k -> {Marker(StartMarker(sec)), Marker(EndMarker(sec)), Other}] : k \in 0..n}

\* a file as other tools lay it out: header, payloads from byte 12 on, directory
RECURSIVE ForeignOffset(_, _)
ForeignOffset(L, k) ==
    IF k <= 1 THEN HeaderSize ELSE ForeignOffset(L, k - 1) + Len(L[k - 1].data)

RECURSIVE ForeignPayloads(_, _)
ForeignPayloads(L, k) ==
    IF k = 0 THEN <<>> ELSE ForeignPayloads(L, k - 1) \o L[k].data

RECURSIVE ForeignDirectory(_, _)
ForeignDirectory(L, k) ==
    IF k = 0 THEN <<>>
    ELSE ForeignDirectory(L, k - 1)
         \o PackU32(ForeignOffset(L, k)) \o PackU32(Len(L[k].data)) \o LJust8(L[k].name)

ForeignFile(L) ==
    PWAD \o PackU32(Len(L)) \o PackU32(ForeignOffset(L, Len(L) + 1))
         \o ForeignPayloads(L, Len(L)) \o ForeignDirectory(L, Len(L))

\* a file with the directory right after the header and the payloads behind it
RECURSIVE DirectoryFirstOffset(_, _)
DirectoryFirstOffset(L, k) ==
    IF k <= 1 THEN HeaderSize + EntrySize * Len(L)
    ELSE DirectoryFirstOffset(L, k - 1) + Len(L[k - 1].data)

RECURSIVE DirectoryFirstEntries(_, _)
DirectoryFirstEntries(L, k) ==
    IF k = 0 THEN <<>>
    ELSE DirectoryFirstEntries(L, k - 1)
         \o PackU32(DirectoryFirstOffset(L, k)) \o PackU32(Len(L[k].data)) \o LJust8(L[k].name)

DirectoryFirstFile(L) ==
    PWAD \o PackU32(Len(L)) \o PackU32(HeaderSize)
         \o DirectoryFirstEntries(L, Len(L)) \o ForeignPayloads(L, Len(L))

\* the first n bytes of a file
Cut(f, n) == SubSeq(f, 1, n)

\* the files of either layout for one list, whole or cut short anywhere
CutFiles(L) ==
    {Cut(ForeignFile(L), n) : n \in 0..Len(ForeignFile(L))}
    \cup {Cut(DirectoryFirstFile(L), n) : n \in 0..Len(DirectoryFirstFile(L))}

----------------------------------------------------------------------------
(* The state machine.                                                      *)

NoCall ==
    [op |-> "init", ok |-> TRUE, name |-> <<>>, data |-> <<>>, index |-> None,
     start_index |-> None, end_index |-> None, pre |-> <<>>, f1 |-> NoFile,
     cycle |-> "", written |-> <<>>, dirpos |-> None,
     prev |-> [op |-> "", ok |-> TRUE, start_index |-> None, end_index |-> None]]

\* what the next call remembers of this one
Prev == [op |-> last.op, ok |-> last.ok, start_index |-> last.start_index,
         end_index |-> last.end_index]

\* __init__ with a path that does not exist: create_empty_wad
InitFresh ==
    /\ lumps = create_empty_wad
    /\ header = [type |-> PWAD, lump_count |-> 0, lump_offset |-> HeaderSize]
    /\ disk = NoFile

\* __init__ with the path of an existing file: _read_wad
InitLoaded(n) ==
    \E L \in StartLists(section, n) :
        /\ disk = ForeignFile(L)
        /\ lumps = read_wad(disk).lumps
        /\ header = read_wad(disk).header

InitCommon ==
    /\ section \in Sections
    /\ last = NoCall
    /\ imported = <<>>
    /\ steps = 0

Init == InitCommon /\ (InitFresh \/ InitLoaded(MaxStart))

InitSave == InitCommon /\ InitLoaded(MaxSaveStart)

\* edits come before the first save of a run
Editing(budget) == steps < budget /\ last.cycle = ""

\* the effect of an editing call that ended with result r
Edited(op, r, name, data, index, s, e, isImport) ==
    /\ lumps' = r.lumps
    /\ last' = [NoCall EXCEPT !.op = op, !.ok = r.ok, !.name = name, !.data = data,
                              !.index = index, !.start_index = s, !.end_index = e,
                              !.pre = lumps, !.prev = Prev]
    /\ imported' = IF isImport /\ r.ok THEN Append(imported, NewLump(name, data)) ELSE <<>>
    /\ steps' = steps + 1
    /\ UNCHANGED <<header, disk, section>>

AddArgs == {<<SPR1, Short>>, <<EndMarker(section), Empty>>, <<TOOLONGNAME, Short>>}
InsertArgs == {<<SPR2, Sprite1x1>>, <<TOOLONGNAME, Empty>>}
ImportArgs == {<<SPR1, Sprite1x1>>, <<SPR2, Sprite1x1>>, <<SPR1, Short>>,
               <<TOOLONGNAME, Sprite1x1>>}

AddLump(budget) ==
    /\ Editing(budget)
    /\ \E a \in AddArgs :
        Edited("add_lump", add_lump(lumps, a[1], a[2]), a[1], a[2], None, None, None, FALSE)

InsertLump(budget) ==
    /\ Editing(budget)
    /\ \E a \in InsertArgs, index \in 0..Len(lumps) :
        Edited("insert_lump", insert_lump(lumps, index, a[1], a[2]), a[1], a[2], index,
               None, None, FALSE)

EnsureMarkers(budget) ==
    /\ Editing(budget)
    /\ LET r == ensure_markers(lumps, StartMarker(section), EndMarker(section))
       IN  Edited("ensure_markers", r, <<>>, <<>>, None, r.start_index, r.end_index, FALSE)

ImportTexturePatch(budget) ==
    /\ Editing(budget)
    /\ section = "P"
    /\ \E a \in ImportArgs :
        LET r == import_texture_patch(lumps, a[1], a[2])
            m == ensure_markers(lumps, StartMarker(section), EndMarker(section))
        IN  Edited("import", r, a[1], a[2], IF r.ok THEN m.end_index ELSE None,
                   None, None, TRUE)

ImportSprite(budget) ==
    /\ Editing(budget)
    /\ section = "S"
    /\ \E a \in ImportArgs :
        LET r == import_sprite(lumps, a[1], a[2])
            m == ensure_markers(lumps, StartMarker(section), EndMarker(section))
        IN  Edited("import", r, a[1], a[2], IF r.ok THEN m.end_index ELSE None,
                   None, None, TRUE)

ImportFlat(budget) ==
    /\ Editing(budget)
    /\ section = "F"
    /\ \E a \in ImportArgs :
        LET r == import_flat(lumps, a[1], a[2])
            m == ensure_markers(lumps, StartMarker(section), EndMarker(section))
        IN  Edited("import", r, a[1], a[2], IF r.ok THEN m.end_index ELSE None,
                   None, None, TRUE)

\* save(): writes the file; the archive in memory is not touched
Save ==
    /\ disk' = save(lumps, header)
    /\ last' = [NoCall EXCEPT !.op = "save", !.pre = lumps, !.f1 = disk, !.prev = Prev,
                              !.cycle = IF last.cycle = "reloaded" THEN "resaved" ELSE "saved",
                              !.written = [k \in 1..Len(lumps) |-> lump_offset_at(lumps, k)],
                              !.dirpos = directory_position(lumps, header)]
    /\ imported' = <<>>
    /\ UNCHANGED <<lumps, header, section, steps>>

\* a new WADManager on the file save wrote.  When _read_wad raises there is no
\* new object: the archive in memory stays the one there was.
Load ==
    /\ last.cycle \in {"saved", "resaved"}
    /\ \E r \in {read_wad(disk)} :
           /\ lumps' = IF r.ok THEN r.lumps ELSE lumps
           /\ header' = IF r.ok THEN r.header ELSE header
           /\ last' = [NoCall EXCEPT !.op = "load", !.ok = r.ok, !.pre = lumps, !.f1 = disk,
                                     !.prev = Prev,
                                     !.cycle = IF r.ok THEN "reloaded" ELSE "failed"]
    /\ imported' = <<>>
    /\ UNCHANGED <<disk, section, steps>>

Next ==
    \/ AddLump(MaxOps)
    \/ EnsureMarkers(MaxOps)
    \/ ImportTexturePatch(MaxOps)
    \/ ImportSprite(MaxOps)
    \/ ImportFlat(MaxOps)

Spec == Init /\ [][Next]_vars

NextSave ==
    \/ AddLump(MaxSaveOps)
    \/ InsertLump(MaxSaveOps)
    \/ EnsureMarkers(MaxSaveOps)
    \/ ImportTexturePatch(MaxSaveOps)
    \/ ImportSprite(MaxSaveOps)
    \/ ImportFlat(MaxSaveOps)
    \/ Save
    \/ Load

SpecSave == InitSave /\ [][NextSave]_vars

\* __init__ up to the test of the path: no lumps yet, the default header, and
\* a file at the path
InitOpen ==
    /\ InitCommon
    /\ lumps = <<>>
    /\ header = [type |-> PWAD, lump_count |-> 0, lump_offset |-> HeaderSize]
    /\ \E L \in StartLists(section, MaxLoadStart) : disk \in CutFiles(L)

\* the rest of __init__: _read_wad on the file.  When it raises, the
\* constructor raises and no archive comes out of it.
Open ==
    /\ last.op = "init"
    /\ \E r \in {read_wad(disk)} :
           /\ lumps' = IF r.ok THEN r.lumps ELSE lumps
           /\ header' = IF r.ok THEN r.header ELSE header
           /\ last' = [NoCall EXCEPT !.op = "open", !.ok = r.ok, !.f1 = disk, !.prev = Prev]
    /\ UNCHANGED <<disk, section, imported, steps>>

NextOpen == Open

SpecOpen == InitOpen /\ [][NextOpen]_vars

----------------------------------------------------------------------------
(* dump.                                                                   *)

\* one turn of dump's loop at verbosity >= 1 with the parser's exception
\* left to propagate
dump_lump_uncaught(lump, verbosity) ==
    IF Len(lump.data) > 0 /\ lump.name \in ParserNames
    THEN IF parser_parse(lump.name, lump.data).ok
         THEN [raised |-> FALSE, did |-> "displayed"]
         ELSE [raised |-> TRUE, did |-> "raised"]
    ELSE [raised |-> FALSE, did |-> "row"]

\* one turn of dump's loop at verbosity >= 1: the row of the lump, then, for
\* a payload that is not empty, parse and display under "except Exception"
\* when the name has a parser, and a hex dump at verbosity 3 when it has none
dump_lump(lump, verbosity) ==
    IF Len(lump.data) > 0
    THEN IF lump.name \in ParserNames
         THEN IF parser_parse(lump.name, lump.data).ok
              THEN [raised |-> FALSE, did |-> "displayed"]
              ELSE [raised |-> FALSE, did |-> "warned"]
         ELSE [raised |-> FALSE, did |-> IF verbosity >= 3 THEN "hex" ELSE "row"]
    ELSE [raised |-> FALSE, did |-> "row"]

\* dump's loop over the first k lumps: [ok, visited]; a turn that raises
\* ends the loop and the call
RECURSIVE dump_lumps(_, _, _)
dump_lumps(L, verbosity, k) ==
    IF k = 0 THEN [ok |-> TRUE, visited |-> <<>>]
    ELSE LET before == dump_lumps(L, verbosity, k - 1)
             turn == IF verbosity = 0 THEN [raised |-> FALSE, did |-> "name"]
                     ELSE dump_lump(L[k], verbosity)
         IN  IF ~before.ok THEN before
             ELSE [ok |-> ~turn.raised,
                   visited |-> Append(before.visited, [idx |-> k - 1, did |-> turn.did])]

\* dump: the header (its type is decoded as ascii), then the lumps
dump(L, hdr, verbosity) ==
    IF ~IsAscii(hdr.type) THEN [ok |-> FALSE, visited |-> <<>>]
    ELSE dump_lumps(L, verbosity, Len(L))

----------------------------------------------------------------------------
(* The inputs of the parsers.                                              *)

WALL1 == <<87, 65, 76, 76, 49>>
FLOOR4_8 == <<70, 76, 79, 79, 82, 52, 95, 56>>
NoName == <<>>

ThingInputs == {Thing(<<-32768, 32767, 65535, 0, 7>>), Thing(<<-1, 2, 90, 3004, 0>>)}
VertexInputs == {Vertex(<<-1, 2>>), Vertex(<<32767, -32768>>)}
LinedefInputs == {Linedef(<<0, 1, 1, 0, 0, 0, 65535>>), Linedef(<<1, 2, 4, 11, 7, 1, 2>>)}
SectorInputs ==
    {Sector(<<-8, 128, FLOOR4_8, NoName, 255, 0, 0>>),
     Sector(<<0, 72, WALL1, FLOOR4_8, 160, 9, 1>>),
     Sector(<<0, 72, TOOLONGNAME, WALL1, 160, 9, 1>>)}
SidedefInputs ==
    {Sidedef(<<-1, 0, WALL1, NoName, FLOOR4_8, 0>>),
     Sidedef(<<0, 16, NoName, WALL1, TOOLONGNAME, 1>>)}
SegInputs == {Seg(<<0, 1, 16384, 0, 0, 0, 0>>), Seg(<<1, 2, 65535, 3, 1, 1, 24>>)}
SubsectorInputs == {Subsector(<<4, 0>>), Subsector(<<65535, 4>>)}
NodeInputs ==
    {Node(<<-6, -5, -4, -3, -2, -1, 0, 1, 2, 3, 4, 5, 6, 7>>),
     Node(<<0, 0, 0, 0, 0, 0, 0, 0, 0, 0, 0, 0, 32768, 65535>>)}
BlockmapInputs == {Blockmap(<<1, 2, 3, 4>>), Blockmap(<<65535, 0, 9, 1>>)}
PNameInputs == {WALL1, FLOOR4_8, TOOLONGNAME}
TextureInputs ==
    {Texture(<<WALL1, 64, 128, <<Patch(<<0, 0, 3, 0, 0>>), Patch(<<32, 0, 7, 0, 0>>)>> >>),
     Texture(<<FLOOR4_8, 8, 8, <<>> >>),
     Texture(<<TOOLONGNAME, 16, 16, <<Patch(<<0, 0, 1, 0, 0>>)>> >>)}

SeqsUpTo(S, n) == UNION {[1..k -> S] : k \in 0..n}

\* the parsers that encode records, and of them those with a RECORD_SIZE
\* (SegsParser has a HEADER_SIZE of one record)
RecordParsers ==
    {THINGS, VERTEXES, LINEDEFS, SIDEDEFS, SECTORS, SEGS, SSECTORS, NODES, BLOCKMAP,
     PNAMES, TEXTURE1}
FixedRecordParsers == {THINGS, VERTEXES, LINEDEFS, SIDEDEFS, SECTORS, SEGS, SSECTORS, NODES}

EncodeInputs(name) ==
    CASE name = THINGS -> SeqsUpTo(ThingInputs, MaxRecords)
      [] name = VERTEXES -> SeqsUpTo(VertexInputs, MaxRecords)
      [] name = LINEDEFS -> SeqsUpTo(LinedefInputs, MaxRecords)
      [] name = SECTORS -> SeqsUpTo(SectorInputs, MaxRecords)
      [] name = SIDEDEFS -> SeqsUpTo(SidedefInputs, MaxRecords)
      [] name = SEGS -> SeqsUpTo(SegInputs, MaxRecords)
      [] name = SSECTORS -> SeqsUpTo(SubsectorInputs, MaxRecords)
      [] name = NODES -> SeqsUpTo(NodeInputs, MaxRecords)
      [] name = BLOCKMAP -> BlockmapInputs
      [] name = PNAMES -> SeqsUpTo(PNameInputs, MaxRecords)
      [] name = TEXTURE1 -> SeqsUpTo(TextureInputs, MaxTextures)

\* a payload of n bytes
PayloadOf(n) == [i \in 1..n |-> (37 * i) % 256]
Payloads == {PayloadOf(n) : n \in 0..MaxPayloadLen}

\* the lumps of an archive that is dumped: one whose payload its parser
\* rejects, one whose payload parses, one without a parser, an empty one
Parses == [name |-> VERTEXES, data |-> <<1, 0, 2, 0>>]
NoParser == [name |-> SPR1, data |-> Short]
DumpLists == SeqsUpTo({Other, Parses, NoParser, Marker(S_START)}, MaxDumpLumps)

----------------------------------------------------------------------------
(* The parsers as a state machine: one call, or an encode and the parse of *)
(* the bytes it returned.                                                  *)

NoCodecCall ==
    [op |-> "init", name |-> <<>>, input |-> <<>>, data |-> <<>>, ok |-> TRUE, err |-> "",
     out |-> <<>>, encoded |-> FALSE]

InitCodec ==
    /\ lumps = <<>>
    /\ header = [type |-> PWAD, lump_count |-> 0, lump_offset |-> HeaderSize]
    /\ disk = NoFile
    /\ section = "P"
    /\ imported = <<>>
    /\ steps = 0
    /\ last = NoCodecCall

\* parser.encode(records)
Encode ==
    /\ last.op = "init"
    /\ \E name \in RecordParsers : \E records \in EncodeInputs(name) :
           \E r \in {parser_encode(name, records)} :
               last' = [op |-> "encode", name |-> name, input |-> records, data |-> <<>>,
                        ok |-> r.ok, err |-> r.err, out |-> r.out, encoded |-> FALSE]
    /\ UNCHANGED <<lumps, header, disk, section, imported, steps>>

\* parser.parse(data) on a payload
Parse ==
    /\ last.op = "init"
    /\ \E name \in FixedRecordParsers \cup {BLOCKMAP} : \E data \in Payloads :
           \E r \in {parser_parse(name, data)} :
               last' = [op |-> "parse", name |-> name, input |-> <<>>, data |-> data,
                        ok |-> r.ok, err |-> r.err, out |-> r.out, encoded |-> FALSE]
    /\ UNCHANGED <<lumps, header, disk, section, imported, steps>>

\* parser.parse on the bytes the encode before returned
ParseEncoded ==
    /\ last.op = "encode" /\ last.ok
    /\ \E r \in {parser_parse(last.name, last.out)} :
           last' = [op |-> "parse", name |-> last.name, input |-> last.input,
                    data |-> last.out, ok |-> r.ok, err |-> r.err, out |-> r.out,
                    encoded |-> TRUE]
    /\ UNCHANGED <<lumps, header, disk, section, imported, steps>>

NextCodec == Encode \/ Parse \/ ParseEncoded

SpecCodec == InitCodec /\ [][NextCodec]_vars

----------------------------------------------------------------------------
(* dump on an archive.                                                     *)

InitDump ==
    /\ InitCommon
    /\ \E L \in DumpLists :
        /\ disk = ForeignFile(L)
        /\ lumps = read_wad(disk).lumps
        /\ header = read_wad(disk).header

\* dump(verbosity): prints, and changes nothing of the archive
Dump ==
    /\ last.op # "dump"
    /\ \E verbosity \in 0..3 : \E r \in {dump(lumps, header, verbosity)} :
           last' = [verbosity |-> verbosity, visited |-> r.visited]
                   @@ [NoCall EXCEPT !.op = "dump", !.ok = r.ok, !.pre = lumps,
                                     !.prev = Prev]
    /\ UNCHANGED <<lumps, header, disk, section, imported, steps>>

NextDump == AddLump(MaxDumpOps) \/ Dump

SpecDump == InitDump /\ [][NextDump]_vars

\* validate(): raises or logs, and changes nothing of the archive
Validate ==
    /\ last.op # "validate"
    /\ last' = [NoCall EXCEPT !.op = "validate", !.ok = validate(lumps).ok,
                              !.pre = lumps, !.prev = Prev]
    /\ UNCHANGED <<lumps, header, disk, section, imported, steps>>

\* the archives the program builds itself: create_empty_wad, then add_lump and
\* the imports
InitValidate == InitCommon /\ InitFresh

NextValidate ==
    \/ AddLump(MaxOps)
    \/ ImportTexturePatch(MaxOps)
    \/ ImportSprite(MaxOps)
    \/ ImportFlat(MaxOps)
    \/ Validate

SpecValidate == InitValidate /\ [][NextValidate]_vars

----------------------------------------------------------------------------
(* Vocabulary of the properties, defined apart from the operators above.   *)

\* 0-based index of the first lump of L named name; None when there is none
FirstNamed(L, name) ==
    LET hits == {i \in 1..Len(L) : L[i].name = name}
    IN  IF hits = {} THEN None ELSE (CHOOSE i \in hits : \A j \in hits : i <= j) - 1

\* names and payloads of a list, without the offset/size read at load time
Content(L) == [i \in 1..Len(L) |-> <<L[i].name, L[i].data>>]

StartOf(L) == FirstNamed(L, StartMarker(section))
EndOf(L) == FirstNamed(L, EndMarker(section))
BothPresent(L) == StartOf(L) # None /\ EndOf(L) # None
InOrder(L) == BothPresent(L) /\ StartOf(L) < EndOf(L)
Misordered(L) == BothPresent(L) /\ StartOf(L) > EndOf(L)

\* L without the elements at the 0-based indices i and j
Without(L, i, j) ==
    LET keep == {k \in 1..Len(L) : k # i + 1 /\ k # j + 1}
        nth(n) == CHOOSE k \in keep : Cardinality({m \in keep : m < k}) = n - 1
    IN  [n \in 1..Cardinality(keep) |-> L[nth(n)]]

Returned == last.op = "ensure_markers" /\ last.ok
ImportedOk == last.op = "import" /\ last.ok

----------------------------------------------------------------------------
(* Marker sections: ensure_markers and the imports.                        *)

\* C1: after k successive successful imports into a section, with no other
\* call in between, the k imported lumps stand in call order in the k
\* positions right before the first lump named X_END.
C1_ImportsAccumulateBeforeEnd ==
    imported # <<>> =>
        LET e == EndOf(lumps)
            k == Len(imported)
        IN  /\ e # None
            /\ e >= k
            /\ \A i \in 1..k :
                /\ lumps[e - k + i].name = imported[i].name
                /\ lumps[e - k + i].data = imported[i].data

\* C2: after a successful import the new lump is after the first X_START
\* lump and right before the first X_END lump.
C2_ImportedLumpBetweenMarkers ==
    ImportedOk =>
        /\ BothPresent(lumps)
        /\ last.index + 1 \in 1..Len(lumps)
        /\ lumps[last.index + 1].name = last.name
        /\ lumps[last.index + 1].data = last.data
        /\ last.index > StartOf(lumps)
        /\ last.index = EndOf(lumps) - 1

\* C3: when ensure_markers returns (s, e), the lump at s is named startName,
\* the lump at e is named endName, and s is before e.
C3_ReturnedIndicesNameMarkersInOrder ==
    Returned =>
        /\ last.start_index + 1 \in 1..Len(lumps)
        /\ last.end_index + 1 \in 1..Len(lumps)
        /\ lumps[last.start_index + 1].name = StartMarker(section)
        /\ lumps[last.end_index + 1].name = EndMarker(section)
        /\ last.start_index < last.end_index

\* C4: on a list whose first start marker is after its first end marker,
\* ensure_markers succeeds and leaves the list without those two lumps,
\* followed by the start marker and the end marker.
C4_RepairMovesOnlyTheMarkers ==
    (last.op = "ensure_markers" /\ Misordered(last.pre)) =>
        /\ last.ok
        /\ Content(lumps) =
             Content(Without(last.pre, StartOf(last.pre), EndOf(last.pre)))
             \o <<<<StartMarker(section), Empty>>, <<EndMarker(section), Empty>>>>

\* C5: a second ensure_markers call right after a first one succeeds, leaves
\* the list as the first call left it and returns the same pair of indices.
C5_EnsureMarkersIdempotent ==
    (last.op = "ensure_markers" /\ last.prev.op = "ensure_markers" /\ last.prev.ok) =>
        /\ last.ok
        /\ lumps = last.pre
        /\ last.start_index = last.prev.start_index
        /\ last.end_index = last.prev.end_index

\* C6: when both markers exist and the first start marker precedes the first
\* end marker, ensure_markers, called any number of times in a row, leaves
\* the list as it is and returns the indices of those two markers.
C6_OrderedMarkersLeftAlone ==
    (last.op = "ensure_markers" /\ InOrder(last.pre)) =>
        /\ last.ok
        /\ lumps = last.pre
        /\ last.start_index = StartOf(last.pre)
        /\ last.end_index = EndOf(last.pre)

\* a second call in a row on a list with other lumps around the markers
C6_Witness ==
    /\ last.op = "ensure_markers"
    /\ last.prev.op = "ensure_markers"
    /\ InOrder(last.pre)
    /\ Len(last.pre) > 2
    /\ StartOf(last.pre) > 0

----------------------------------------------------------------------------
(* save and load.                                                          *)

Saved == last.op = "save"
Count == Len(lumps)

\* the k-th 16-byte entry of the directory save wrote, as it stands in the file
EntryInFile(k) == ReadAt(disk, last.dirpos + EntrySize * (k - 1), EntrySize)

\* C7: the file F1 written by save can be loaded, and saving the loaded
\* archive without edits writes a file F2 identical to F1.
C7_SaveLoadSaveReproducesFile ==
    /\ (last.op = "load" /\ last.prev.op = "save") => last.ok
    /\ (Saved /\ last.cycle = "resaved") => disk = last.f1

\* C8: in the file written by save the first payload starts right after the
\* 12-byte header, each next payload starts where the one before ended, and
\* the directory starts where the last payload ended.
C8_PayloadsFollowHeaderWithoutGap ==
    (Saved /\ Count > 0) =>
        /\ last.written[1] = 12
        /\ \A k \in 1..(Count - 1) :
            last.written[k + 1] = last.written[k] + Len(lumps[k].data)
        /\ last.dirpos = last.written[Count] + Len(lumps[Count].data)
        /\ \A k \in 1..Count :
            ReadAt(disk, last.written[k], Len(lumps[k].data)) = lumps[k].data

\* C9: the header written by save carries the current number of lumps and
\* 12 + 16 x that number as directory offset, whatever was read at load time.
C9_HeaderRecomputedOnSave ==
    Saved =>
        /\ Len(disk) >= 12
        /\ UnpackU32(SubSeq(disk, 5, 8)) = Count
        /\ UnpackU32(SubSeq(disk, 9, 12)) = 12 + 16 * Count

\* a save after an edit, with a count and a directory offset read at load
\* time that are both out of date
C9_Witness ==
    /\ Saved
    /\ steps > 0
    /\ header.lump_count # Count
    /\ header.lump_offset # 12 + 16 * Count

\* C10: the directory written by save has one entry per lump, in list order,
\* with the lump's name padded to 8 bytes, the current length of its payload
\* and the offset save wrote the payload at; never the offset or size read
\* at load time.
C10_DirectoryMirrorsLumps ==
    Saved =>
        /\ Len(disk) - last.dirpos = 16 * Count \/ (Count = 0 /\ Len(disk) = 12)
        /\ \A k \in 1..Count :
            /\ UnpackU32(SubSeq(EntryInFile(k), 1, 4)) = last.written[k]
            /\ UnpackU32(SubSeq(EntryInFile(k), 5, 8)) = Len(lumps[k].data)
            /\ SubSeq(EntryInFile(k), 9, 16) = lumps[k].name \o Zeros(8 - Len(lumps[k].name))
            /\ ReadAt(disk, last.written[k], Len(lumps[k].data)) = lumps[k].data

\* a save of loaded lumps whose payloads are not empty and whose offsets read
\* at load time are not the ones save writes, next to a lump added since
C10_Witness ==
    /\ Saved
    /\ Count >= 3
    /\ \E k \in 1..Count :
        /\ lumps[k].offset # None
        /\ lumps[k].offset # last.written[k]
        /\ lumps[k].data # <<>>
    /\ \E k \in 1..Count : lumps[k].offset = None /\ lumps[k].data # <<>>

----------------------------------------------------------------------------
(* Lump names.                                                             *)

\* C11: add_lump with a name of more than 8 characters fails and leaves the
\* lump list as it was; with a name of at most 8 characters it succeeds and
\* the list is the previous list followed by one new lump that holds exactly
\* the given name and payload.
C11_AddLumpChecksNameLength ==
    last.op = "add_lump" =>
        IF Len(last.name) > 8
        THEN ~last.ok /\ lumps = last.pre
        ELSE /\ last.ok
             /\ Len(lumps) = Len(last.pre) + 1
             /\ SubSeq(lumps, 1, Len(last.pre)) = last.pre
             /\ lumps[Len(lumps)].name = last.name
             /\ lumps[Len(lumps)].data = last.data

\* an accepted add_lump followed by a rejected one on a list that is not empty
C11_Witness ==
    /\ last.op = "add_lump" /\ Len(last.name) > 8 /\ ~last.ok
    /\ last.prev.op = "add_lump" /\ last.prev.ok
    /\ Len(lumps) > 1

\* the first 8 characters of a name
FirstEight(name) == SubSeq(name, 1, Min(Len(name), 8))

\* C12: in every reachable state, whatever calls of load, add_lump,
\* insert_lump, ensure_markers and the imports came before and whether they
\* succeeded or failed, every lump's name has at most 8 characters and none
\* is the truncation of a longer name that a caller supplied.
C12_NamesAtMostEightNeverTruncated ==
    \A i \in 1..Len(lumps) :
        /\ Len(lumps[i].name) <= 8
        /\ lumps[i].name # FirstEight(TOOLONGNAME)

\* a call with the long name was made on an archive that holds lumps
C12_Witness ==
    /\ last.op \in {"insert_lump", "import"}
    /\ last.name = TOOLONGNAME
    /\ ~last.ok
    /\ Len(lumps) > 0

\* C13: import_texture_patch, import_sprite and import_flat differ only in
\* their marker pair: with a name of at most 8 characters and any payload,
\* empty or shorter than a sprite header included, the import succeeds and a
\* lump holding exactly that name and payload stands immediately before an
\* end marker of the section.
C13_ImportsDifferOnlyInMarkers ==
    (last.op = "import" /\ Len(last.name) <= 8) =>
        /\ last.ok
        /\ \E i \in 1..(Len(lumps) - 1) :
               /\ lumps[i].name = last.name
               /\ lumps[i].data = last.data
               /\ lumps[i + 1].name = EndMarker(section)

----------------------------------------------------------------------------
(* Loading a file.                                                         *)

\* the header fields and directory entries as the bytes of the file give them
FileLumpCount == UnpackU32(SubSeq(disk, 5, 8))
FileDirectoryOffset == UnpackU32(SubSeq(disk, 9, 12))
HeaderCut == Len(disk) < HeaderSize
DirectoryCut == ~HeaderCut /\ FileDirectoryOffset + EntrySize * FileLumpCount > Len(disk)
FileEntryOffset(k) == UnpackU32(ReadAt(disk, FileDirectoryOffset + EntrySize * (k - 1), 4))
FileEntrySize(k) == UnpackU32(ReadAt(disk, FileDirectoryOffset + EntrySize * (k - 1) + 4, 4))
PayloadCut ==
    /\ ~HeaderCut /\ ~DirectoryCut
    /\ \E k \in 1..FileLumpCount : FileEntryOffset(k) + FileEntrySize(k) > Len(disk)

\* C15: the load fails as a whole, and no archive with a partial or shortened
\* lump comes out of it, whenever the file is shorter than the 12-byte header,
\* or the directory range [directory offset, directory offset + 16 * lump
\* count) runs past the end of the file, or the payload range [offset,
\* offset + size) of a directory entry runs past the end of the file.
C15_LoadRejectsTruncatedFiles ==
    (last.op = "open" /\ (HeaderCut \/ DirectoryCut \/ PayloadCut)) =>
        ~last.ok /\ lumps = <<>>

----------------------------------------------------------------------------
(* dump.                                                                   *)

\* C14: dump at verbosity >= 1 processes every lump exactly once, in list
\* order, and then returns normally, whichever lumps fail to decode: the
\* failure of lump i is caught and the lumps after i are still processed.
C14_DumpVisitsEveryLumpOnce ==
    (last.op = "dump" /\ last.verbosity >= 1) =>
        /\ last.ok
        /\ lumps = last.pre
        /\ Len(last.visited) = Len(lumps)
        /\ \A k \in 1..Len(lumps) : last.visited[k].idx = k - 1

\* a dump in which a lump that failed to decode comes before one that decoded
C14_Witness ==
    /\ last.op = "dump" /\ last.verbosity >= 1 /\ last.ok
    /\ \E i, j \in 1..Len(last.visited) :
           i < j /\ last.visited[i].did = "warned" /\ last.visited[j].did = "displayed"

----------------------------------------------------------------------------
(* The codecs.                                                             *)

Encoded == last.op = "encode"
Decoded == last.op = "parse" /\ ~last.encoded
RoundTrip == last.op = "parse" /\ last.encoded

\* the names held by the records of an input of the parser called name
NamesOf(name, input) ==
    CASE name = SECTORS ->
             UNION {{input[k].floor_tex, input[k].ceiling_tex} : k \in 1..Len(input)}
      [] name = SIDEDEFS ->
             UNION {{input[k].upper_tex, input[k].lower_tex, input[k].middle_tex} :
                    k \in 1..Len(input)}
      [] name = PNAMES -> {input[k] : k \in 1..Len(input)}
      [] name = TEXTURE1 -> {input[k].name : k \in 1..Len(input)}
      [] OTHER -> {}
HasLongName(name, input) == \E n \in NamesOf(name, input) : Len(n) > 8

\* the kinds of C16: fixed-size records, the patch name table, the blockmap header
FixedSizeKinds ==
    {THINGS, VERTEXES, LINEDEFS, SIDEDEFS, SECTORS, SEGS, SSECTORS, NODES, PNAMES, BLOCKMAP}

\* C16: for every fixed-size kind and every valid record sequence, the empty
\* one included, encode succeeds, and the decode of its bytes succeeds and
\* gives back the sequence.
C16_FixedKindsRoundTrip ==
    /\ (Encoded /\ last.name \in FixedSizeKinds /\ ~HasLongName(last.name, last.input))
           => last.ok
    /\ (RoundTrip /\ last.name \in FixedSizeKinds /\ ~HasLongName(last.name, last.input))
           => last.ok /\ last.out = last.input

\* the record sizes the specification gives
StatedRecordSize(name) ==
    CASE name = THINGS -> 10 [] name = VERTEXES -> 4 [] name = LINEDEFS -> 14
      [] name = SIDEDEFS -> 30 [] name = SECTORS -> 26 [] name = SEGS -> 14
      [] name = SSECTORS -> 4 [] name = NODES -> 28

\* C17: for every fixed-record kind (Thing 10, Vertex 4, Linedef 14, Sidedef
\* 30, Sector 26, Seg 14, Subsector 4, Node 28 bytes) the decode of a payload
\* whose length is no exact multiple of the record size fails with a format
\* error (ValueError for the size, or struct.error for the cut record) and
\* returns no records.
C17_PartialRecordRejected ==
    (Decoded /\ last.name \in FixedRecordParsers
             /\ Len(last.data) % StatedRecordSize(last.name) # 0) =>
        /\ ~last.ok
        /\ last.err \in {"ValueError", "struct.error"}
        /\ last.out = <<>>

\* a Seg payload of more than one record with a partial record at its end
C17_Witness ==
    /\ Decoded /\ last.name = SEGS /\ ~last.ok
    /\ Len(last.data) > StatedRecordSize(SEGS)
    /\ Len(last.data) % StatedRecordSize(SEGS) # 0

\* C18: for every list of textures, each with any number of patches, encode
\* succeeds and the decode of its bytes gives, in order, every texture's
\* name, width, height and patches.
C18_TextureRoundTrip ==
    /\ (Encoded /\ last.name = TEXTURE1 /\ ~HasLongName(last.name, last.input)) => last.ok
    /\ (RoundTrip /\ last.name = TEXTURE1 /\ ~HasLongName(last.name, last.input)) =>
           /\ last.ok
           /\ Len(last.out) = Len(last.input)
           /\ \A k \in 1..Len(last.input) :
                  /\ last.out[k].name = last.input[k].name
                  /\ last.out[k].width = last.input[k].width
                  /\ last.out[k].height = last.input[k].height
                  /\ last.out[k].patches = last.input[k].patches

\* C19: the encoders with 8-byte name fields (Sidedef, Sector, patch name
\* table, Texture) fail when a name is longer than 8 bytes, and never return
\* bytes that hold such a name cut to 8 bytes.
C19_EncodersRejectLongNames ==
    (Encoded /\ last.name \in {SIDEDEFS, SECTORS, PNAMES, TEXTURE1}
             /\ HasLongName(last.name, last.input)) => ~last.ok

RECURSIVE SumSeq(_)
SumSeq(s) == IF s = <<>> THEN 0 ELSE Head(s) + SumSeq(Tail(s))

\* the i-th entry of the offset table in the bytes of a texture lump
OffsetEntry(bytes, i) == UnpackU32(SubSeq(bytes, 4 * i + 1, 4 * i + 4))

\* where the i-th texture block starts in the bytes encode returned for T:
\* after the count, the table and the blocks before it
BlockStart(T, i) ==
    4 + 4 * Len(T) + SumSeq([j \in 1..(i - 1) |-> Len(texture_block(T[j]).bytes)])

\* C20: in the bytes Texture encode returns for n textures, the i-th entry of
\* the offset table is 4 + 4n plus the sum of the sizes, 22 + 12 * patch
\* count each, of the texture blocks before texture i, and that is the
\* position at which block i starts in the bytes.
C20_OffsetTablePointsAtBlocks ==
    (Encoded /\ last.name = TEXTURE1 /\ last.ok) =>
        \A i \in 1..Len(last.input) :
            /\ OffsetEntry(last.out, i)
                   = 4 + 4 * Len(last.input)
                     + SumSeq([j \in 1..(i - 1) |-> 22 + 12 * Len(last.input[j].patches)])
            /\ OffsetEntry(last.out, i) = BlockStart(last.input, i)

----------------------------------------------------------------------------
(* save followed by load.                                                  *)

\* C21: for any archive in memory, archives with payloads that are not empty
\* included, the load of the file save wrote succeeds and gives the same
\* header tag (PWAD in every archive here) and the same lumps: the same
\* names and the same payload bytes in the same order.
C21_SaveThenLoadPreservesArchive ==
    (last.op = "load" /\ last.prev.op = "save") =>
        /\ last.ok
        /\ header.type = PWAD
        /\ Content(lumps) = Content(last.pre)

----------------------------------------------------------------------------
(* Failed imports.                                                         *)

\* a payload the sprite import refuses: shorter than the 8 header bytes, or
\* than the header and width * height pixels
SpriteRejected(d) ==
    \/ Len(d) < 8
    \/ Len(d) < 8 + (d[1] + 256 * d[2]) * (d[3] + 256 * d[4])

\* an import that failed for its name or, in the sprite section, its payload
ImportRefused ==
    /\ last.op = "import" /\ ~last.ok
    /\ Len(last.name) > 8 \/ (section = "S" /\ SpriteRejected(last.data))

\* C22: a failed import is atomic: when import_texture_patch, import_sprite
\* or import_flat fails for a name of more than 8 characters or a rejected
\* sprite payload, the lump list is exactly the list before the call: no
\* marker has been added, removed or moved.
C22_FailedImportIsAtomic ==
    ImportRefused => lumps = last.pre

----------------------------------------------------------------------------
(* validate on the archives the program builds.                            *)

\* no call has failed since construction: validate leaves steps alone, so the
\* call before it is the only one when steps = 1
OnlySuccessfulCalls == steps = 0 \/ (steps = 1 /\ last.prev.ok)

\* C23: validate succeeds on every archive the program builds itself: on the
\* archive of create_empty_wad and on the archives reached from it by
\* successful add_lump and import calls; the S_START marker of length zero
\* does not make it fail.
C23_ValidateAcceptsBuiltArchives ==
    (last.op = "validate" /\ OnlySuccessfulCalls) => last.ok

====
